---- MODULE Spec2Model ----
(***************************************************************************)
(* Sequential stock-allocation loop of app.py (lines 95-150).              *)
(*                                                                         *)
(* Dates are counted in calendar months: month m of 2025 is the integer m, *)
(* month m of 2026 is 12 + m.  A 'Forecast Ship Date' is the first day of  *)
(* its month, and so is every required expiration date (ship date plus a   *)
(* whole number of months), hence a stock expiration timestamp compares    *)
(* >= to a required date exactly when its month index does.               *)
(***************************************************************************)
EXTENDS Integers, Sequences, FiniteSets, TLC

\* ---------------------------------------------------------------- bounds
MaxQty == 2          \* largest 'Forecasted Qty' of a forecast row
MaxOrders == 2       \* most rows of forecasted_orders_with_shelf_life

Products == {"P", "Q"}
Customers == {"A", "B"}
ShipMonths == {6, 7}             \* a part of the June..December window (lines 74-75)
ShelfLives == {3, 6, 12}         \* the values parse_shelf_life returns (lines 16-22)
NaT == 0                         \* pd.NaT: no expiration date (line 99)
ExpDates == {NaT, 12}            \* earliest_expiration_date: NaT or December 2025
StockQtys == {0, MaxQty}         \* total_available_stock: none, or one full order

ProductRank == [p \in Products |-> IF p = "P" THEN 1 ELSE 2]
CustomerRank == [c \in Customers |-> IF c = "A" THEN 1 ELSE 2]

\* ------------------------------------------------------------ input frames
\* A row of forecasted_orders_with_shelf_life (lines 78-93).
ForecastRows ==
    [product : Products, customer : Customers, month : ShipMonths,
     qty : 0..MaxQty, shelf : ShelfLives]

\* The groupby of line 78 sorts its keys: the frame is ordered by
\* (Item Description, customer, period).
KeyRank(r) == 100 * ProductRank[r.product] + 20 * CustomerRank[r.customer] + r.month

\* The frames the merge of lines 87-93 can hand to the loop: rows in key
\* order, one per key, every row of a customer carrying that customer's
\* parsed shelf life.
ForecastFrames ==
    { f \in UNION { [1..n -> ForecastRows] : n \in 0..MaxOrders } :
        /\ \A i \in 1..(Len(f) - 1) : KeyRank(f[i]) < KeyRank(f[i + 1])
        /\ \A i, j \in 1..Len(f) :
              f[i].customer = f[j].customer => f[i].shelf = f[j].shelf }

\* A row of consolidated_stock (lines 60-63), or no row for the product.
NoStock == [present |-> FALSE, qty |-> 0, exp |-> NaT]
StockRows == { [present |-> TRUE, qty |-> q, exp |-> e] : q \in StockQtys, e \in ExpDates }
StockTables == [Products -> StockRows \cup {NoStock}]

VARIABLES
    consolidated_stock,          \* product -> stock row (line 60)
    forecast,                    \* forecasted_orders_with_shelf_life (line 87)
    pc,                          \* "groups" | "rows" | "done"
    groups,                      \* products the outer loop has yet to visit (line 96)
    product_name,                \* the outer loop's product (line 96)
    current_available_qty,       \* running balance (line 98)
    stock_expiration_date,       \* line 99
    rows,                        \* rows of product_group_df_sorted yet to replay (line 102)
    results,                     \* sequential_analysis_results (line 95)
    data_loaded,                 \* st.session_state.data_loaded (line 150)
    run,                         \* "first" | "second": which execution of the script
    first_results,               \* the ledger the first execution stored (line 140)
    shipments_2024_df,           \* rows of the shipments sheet with a ship date (line 71)
    shelf_life_df,               \* rows of the shelf-life sheet (line 37)
    forecast_2025_df,            \* the aggregated forecast (line 78)
    shelf_text,                  \* argument of parse_shelf_life (line 7)
    shelf_months                 \* value parse_shelf_life returned; 0 before the call

\* The frames the loop is prepared from, and the call of parse_shelf_life.
prep == <<shipments_2024_df, shelf_life_df, forecast_2025_df, shelf_text, shelf_months>>

vars == <<consolidated_stock, forecast, pc, groups, product_name,
          current_available_qty, stock_expiration_date, rows, results,
          data_loaded, run, first_results, prep>>

\* ------------------------------------------------------------- helpers
\* DataFrame.groupby('Item Description') (line 96): the distinct products of
\* the frame, in sorted order.
RECURSIVE GroupKeys(_)
GroupKeys(f) ==
    IF f = <<>> THEN <<>>
    ELSE LET rest == GroupKeys(Tail(f))
         IN  IF rest # <<>> /\ Head(rest) = Head(f).product THEN rest
             ELSE <<Head(f).product>> \o rest

\* product_group_df: the rows of one group, in frame order (line 96).
GroupRows(f, p) == SelectSeq(f, LAMBDA r : r.product = p)

\* Insertion of a row behind every row whose ship date is not later.
RECURSIVE InsertByShipDate(_, _)
InsertByShipDate(s, r) ==
    IF s = <<>> THEN <<r>>
    ELSE IF Head(s).month <= r.month THEN <<Head(s)>> \o InsertByShipDate(Tail(s), r)
         ELSE <<r>> \o s

\* sort_values(by='Forecast Ship Date') (line 100).  For the short groups of
\* the model NumPy's quicksort is an insertion sort: rows of equal ship date
\* keep their frame order.
RECURSIVE SortValues(_)
SortValues(s) ==
    IF s = <<>> THEN <<>>
    ELSE InsertByShipDate(SortValues(SubSeq(s, 1, Len(s) - 1)), s[Len(s)])

\* initial_stock_info (line 97) and the two reads of it (lines 98-99, 129).
InitialStockInfo(p) == consolidated_stock[p]
InitialQty(p) == IF InitialStockInfo(p).present THEN InitialStockInfo(p).qty ELSE 0
InitialExp(p) == IF InitialStockInfo(p).present THEN InitialStockInfo(p).exp ELSE NaT

\* required_expiration_date (line 106).
RequiredExpirationDate(r) == r.month + r.shelf

\* is_stock_valid_for_order (line 109).
IsStockValid(exp, r) == exp # NaT /\ exp >= RequiredExpirationDate(r)

\* Decide with line 121 forgotten: a short order is reported missing in full.
DecideShortMissesAll(bal, exp, r) ==
    IF bal >= r.qty
    THEN IF exp # NaT /\ exp >= r.month + r.shelf
         THEN [status |-> "Yes", missing |-> 0, remaining |-> bal - r.qty]
         ELSE [status |-> "No (Validity)", missing |-> r.qty, remaining |-> bal]
    ELSE IF exp # NaT /\ exp >= r.month + r.shelf
         THEN [status |-> "No (Quantity)", missing |-> r.qty, remaining |-> 0]
         ELSE [status |-> "No (Quantity & Validity)", missing |-> r.qty, remaining |-> 0]

\* Decide with line 115 repeated in the branch of line 117: an order refused
\* for validity alone takes its quantity off the balance.
DecideValidityConsumes(bal, exp, r) ==
    IF bal >= r.qty
    THEN IF exp # NaT /\ exp >= r.month + r.shelf
         THEN [status |-> "Yes", missing |-> 0, remaining |-> bal - r.qty]
         ELSE [status |-> "No (Validity)", missing |-> r.qty, remaining |-> bal - r.qty]
    ELSE IF exp # NaT /\ exp >= r.month + r.shelf
         THEN [status |-> "No (Quantity)", missing |-> r.qty - bal, remaining |-> 0]
         ELSE [status |-> "No (Quantity & Validity)", missing |-> r.qty, remaining |-> 0]

\* Decide with the labels of lines 120 and 124 exchanged.
DecideSwappedLabels(bal, exp, r) ==
    IF bal >= r.qty
    THEN IF exp # NaT /\ exp >= r.month + r.shelf
         THEN [status |-> "Yes", missing |-> 0, remaining |-> bal - r.qty]
         ELSE [status |-> "No (Validity)", missing |-> r.qty, remaining |-> bal]
    ELSE IF exp # NaT /\ exp >= r.month + r.shelf
         THEN [status |-> "No (Quantity & Validity)", missing |-> r.qty - bal, remaining |-> 0]
         ELSE [status |-> "No (Quantity)", missing |-> r.qty, remaining |-> 0]

\* Decide with line 122 written as a subtraction: a short order takes its
\* whole quantity off the balance.
DecideShortGoesNegative(bal, exp, r) ==
    IF bal >= r.qty
    THEN IF exp # NaT /\ exp >= r.month + r.shelf
         THEN [status |-> "Yes", missing |-> 0, remaining |-> bal - r.qty]
         ELSE [status |-> "No (Validity)", missing |-> r.qty, remaining |-> bal]
    ELSE IF exp # NaT /\ exp >= r.month + r.shelf
         THEN [status |-> "No (Quantity)", missing |-> r.qty - bal, remaining |-> bal - r.qty]
         ELSE [status |-> "No (Quantity & Validity)", missing |-> r.qty, remaining |-> 0]

\* Decide with the sign of line 121 turned: the balance is added to the
\* missing quantity.
DecideShortAdds(bal, exp, r) ==
    IF bal >= r.qty
    THEN IF exp # NaT /\ exp >= r.month + r.shelf
         THEN [status |-> "Yes", missing |-> 0, remaining |-> bal - r.qty]
         ELSE [status |-> "No (Validity)", missing |-> r.qty, remaining |-> bal]
    ELSE IF exp # NaT /\ exp >= r.month + r.shelf
         THEN [status |-> "No (Quantity)", missing |-> r.qty + bal, remaining |-> 0]
         ELSE [status |-> "No (Quantity & Validity)", missing |-> r.qty, remaining |-> 0]

\* Decide without lines 122 and 126: a short order leaves the balance alone.
DecideShortKeepsStock(bal, exp, r) ==
    IF bal >= r.qty
    THEN IF exp # NaT /\ exp >= r.month + r.shelf
         THEN [status |-> "Yes", missing |-> 0, remaining |-> bal - r.qty]
         ELSE [status |-> "No (Validity)", missing |-> r.qty, remaining |-> bal]
    ELSE IF exp # NaT /\ exp >= r.month + r.shelf
         THEN [status |-> "No (Quantity)", missing |-> r.qty - bal, remaining |-> bal]
         ELSE [status |-> "No (Quantity & Validity)", missing |-> r.qty, remaining |-> bal]

\* The decision of lines 107-126 for balance bal, stock expiration exp and
\* forecast row r: status, missing quantity and the balance it leaves.
Decide(bal, exp, r) ==
    IF bal >= r.qty
    THEN IF IsStockValid(exp, r)
         THEN [status |-> "Yes", missing |-> 0, remaining |-> bal - r.qty]
         ELSE [status |-> "No (Validity)", missing |-> r.qty, remaining |-> bal]
    ELSE IF IsStockValid(exp, r)
         THEN [status |-> "No (Quantity)", missing |-> r.qty - bal, remaining |-> 0]
         ELSE [status |-> "No (Quantity & Validity)", missing |-> r.qty, remaining |-> 0]

\* RowResult with line 129 reading the running balance instead of the
\* product's stock row.
RowResultRunningInitial(p, bal, exp, r) ==
    LET d == Decide(bal, exp, r)
    IN  [product |-> r.product, customer |-> r.customer, month |-> r.month,
         qty |-> r.qty, shelf |-> r.shelf,
         initial |-> bal,
         exp |-> exp,
         status |-> d.status,
         missing |-> d.missing,
         remaining |-> d.remaining]

\* row_result (lines 128-133).
RowResult(p, bal, exp, r) ==
    LET d == Decide(bal, exp, r)
    IN  [product |-> r.product, customer |-> r.customer, month |-> r.month,
         qty |-> r.qty, shelf |-> r.shelf,
         initial |-> InitialQty(p),
         exp |-> exp,
         status |-> d.status,
         missing |-> d.missing,
         remaining |-> d.remaining]

\* A cell of the shelf-life column: a string, spelt as a sequence of pieces of
\* text, or a value that is no string.
NoText == [kind |-> "nan", text |-> <<>>]

\* No sheet has been read and parse_shelf_life has not been called.
PrepIdle ==
    /\ shipments_2024_df = {}
    /\ shelf_life_df = <<>>
    /\ forecast_2025_df = <<>>
    /\ shelf_text = NoText
    /\ shelf_months = 0

\* ------------------------------------------------------------- actions
Init ==
    /\ consolidated_stock \in StockTables
    /\ forecast \in ForecastFrames
    /\ pc = "groups"
    /\ groups = GroupKeys(forecast)
    /\ product_name = "P"
    /\ current_available_qty = 0
    /\ stock_expiration_date = NaT
    /\ rows = <<>>
    /\ results = <<>>
    /\ data_loaded = FALSE
    /\ run = "first"
    /\ first_results = <<>>
    /\ PrepIdle

\* BeginProduct without the sort of line 100: the group is replayed in frame
\* order.
BeginProductUnsorted ==
    /\ pc = "groups"
    /\ groups # <<>>
    /\ product_name' = Head(groups)
    /\ groups' = Tail(groups)
    /\ current_available_qty' = InitialQty(Head(groups))
    /\ stock_expiration_date' = InitialExp(Head(groups))
    /\ rows' = GroupRows(forecast, Head(groups))
    /\ pc' = "rows"
    /\ UNCHANGED prep
    /\ UNCHANGED <<consolidated_stock, forecast, results, data_loaded, run, first_results>>

\* Lines 96-100: the outer loop takes the next product.
BeginProduct ==
    /\ pc = "groups"
    /\ groups # <<>>
    /\ product_name' = Head(groups)
    /\ groups' = Tail(groups)
    /\ current_available_qty' = InitialQty(Head(groups))
    /\ stock_expiration_date' = InitialExp(Head(groups))
    /\ rows' = SortValues(GroupRows(forecast, Head(groups)))
    /\ pc' = "rows"
    /\ UNCHANGED prep
    /\ UNCHANGED <<consolidated_stock, forecast, results, data_loaded, run, first_results>>

\* ProcessOrder skipping the rows of quantity 0 instead of recording them.
ProcessOrderSkipZero ==
    /\ pc = "rows"
    /\ rows # <<>>
    /\ LET res == RowResult(product_name, current_available_qty,
                            stock_expiration_date, Head(rows))
       IN  /\ current_available_qty' = res.remaining
           /\ results' = IF Head(rows).qty = 0 THEN results ELSE Append(results, res)
    /\ rows' = Tail(rows)
    /\ pc' = IF Tail(rows) = <<>> THEN "groups" ELSE "rows"
    /\ UNCHANGED prep
    /\ UNCHANGED <<consolidated_stock, forecast, groups, product_name,
                   stock_expiration_date, data_loaded, run, first_results>>

\* ProcessOrder deciding every order against the product's initial stock
\* (the assignment of line 98 moved inside the inner loop).
ProcessOrderResetBalance ==
    /\ pc = "rows"
    /\ rows # <<>>
    /\ LET res == RowResult(product_name, InitialQty(product_name),
                            stock_expiration_date, Head(rows))
       IN  /\ current_available_qty' = res.remaining
           /\ results' = Append(results, res)
    /\ rows' = Tail(rows)
    /\ pc' = IF Tail(rows) = <<>> THEN "groups" ELSE "rows"
    /\ UNCHANGED prep
    /\ UNCHANGED <<consolidated_stock, forecast, groups, product_name,
                   stock_expiration_date, data_loaded, run, first_results>>

\* ProcessOrder writing the balance back into the product's stock row.
ProcessOrderWriteBack ==
    /\ pc = "rows"
    /\ rows # <<>>
    /\ LET res == RowResult(product_name, current_available_qty,
                            stock_expiration_date, Head(rows))
       IN  /\ current_available_qty' = res.remaining
           /\ results' = Append(results, res)
           /\ consolidated_stock' =
                [consolidated_stock EXCEPT ![product_name].qty = res.remaining]
    /\ rows' = Tail(rows)
    /\ pc' = IF Tail(rows) = <<>> THEN "groups" ELSE "rows"
    /\ UNCHANGED prep
    /\ UNCHANGED <<forecast, groups, product_name,
                   stock_expiration_date, data_loaded, run, first_results>>

\* Lines 102-134: one iteration of the inner loop.
ProcessOrder ==
    /\ pc = "rows"
    /\ rows # <<>>
    /\ LET res == RowResult(product_name, current_available_qty,
                            stock_expiration_date, Head(rows))
       IN  /\ current_available_qty' = res.remaining
           /\ results' = Append(results, res)
    /\ rows' = Tail(rows)
    /\ pc' = IF Tail(rows) = <<>> THEN "groups" ELSE "rows"
    /\ UNCHANGED prep
    /\ UNCHANGED <<consolidated_stock, forecast, groups, product_name,
                   stock_expiration_date, data_loaded, run, first_results>>

\* Finish without the test of line 141: line 142 reads a column the empty
\* frame does not have, and the handler of lines 153-160 marks the load failed.
FinishUnguarded ==
    /\ pc = "groups"
    /\ groups = <<>>
    /\ pc' = IF results = <<>> THEN "failed" ELSE "done"
    /\ data_loaded' = (results # <<>>)
    /\ UNCHANGED prep
    /\ UNCHANGED <<consolidated_stock, forecast, groups, product_name,
                   current_available_qty, stock_expiration_date, rows, results,
                   run, first_results>>

\* Lines 136-150: the ledger is stored and the load is marked done.
Finish ==
    /\ pc = "groups"
    /\ groups = <<>>
    /\ pc' = "done"
    /\ data_loaded' = TRUE
    /\ UNCHANGED prep
    /\ UNCHANGED <<consolidated_stock, forecast, groups, product_name,
                   current_available_qty, stock_expiration_date, rows, results,
                   run, first_results>>

\* A second execution of the script on the same workbook (load_excel_data is
\* cached, lines 32-38): lines 95-100 start again from the same frames.
Rerun ==
    /\ pc = "done"
    /\ run = "first"
    /\ run' = "second"
    /\ first_results' = results
    /\ results' = <<>>
    /\ groups' = GroupKeys(forecast)
    /\ rows' = <<>>
    /\ pc' = "groups"
    /\ data_loaded' = FALSE
    /\ UNCHANGED prep
    /\ UNCHANGED <<consolidated_stock, forecast, product_name,
                   current_available_qty, stock_expiration_date>>

Next == BeginProduct \/ ProcessOrder \/ Finish

Spec == Init /\ [][Next]_vars

\* The script executed twice on one workbook.
NextRerun == BeginProduct \/ ProcessOrder \/ Finish \/ Rerun

SpecRerun == Init /\ [][NextRerun]_vars

\* A stock row of one full order and a stock row of a single unit, less than
\* an order may ask for, both valid to December 2025.
FullStockRow == [present |-> TRUE, qty |-> MaxQty, exp |-> 12]
UnitStockRow == [present |-> TRUE, qty |-> 1, exp |-> 12]

\* The stock tables in which every product has no row, a unit or a full order.
StockTablesUnit == [Products -> {NoStock, UnitStockRow, FullStockRow}]

InitUnitStock ==
    /\ consolidated_stock \in StockTablesUnit
    /\ forecast \in ForecastFrames
    /\ pc = "groups"
    /\ groups = GroupKeys(forecast)
    /\ product_name = "P"
    /\ current_available_qty = 0
    /\ stock_expiration_date = NaT
    /\ rows = <<>>
    /\ results = <<>>
    /\ data_loaded = FALSE
    /\ run = "first"
    /\ first_results = <<>>
    /\ PrepIdle

SpecUnitStock == InitUnitStock /\ [][Next]_vars

\* The groups of line 96 taken in any order: the replay of a product started
\* before or after that of any other.
RemoveAt(s, k) == SubSeq(s, 1, k - 1) \o SubSeq(s, k + 1, Len(s))

\* BeginAnyProduct with line 98 run for the first product only: the next
\* product starts from the balance the last one left.
BeginAnyProductKeepsBalance ==
    /\ pc = "groups"
    /\ \E k \in 1..Len(groups) :
          /\ product_name' = groups[k]
          /\ groups' = RemoveAt(groups, k)
          /\ current_available_qty' =
                IF results = <<>> THEN InitialQty(groups[k]) ELSE current_available_qty
          /\ stock_expiration_date' = InitialExp(groups[k])
          /\ rows' = SortValues(GroupRows(forecast, groups[k]))
    /\ pc' = "rows"
    /\ UNCHANGED prep
    /\ UNCHANGED <<consolidated_stock, forecast, results, data_loaded, run, first_results>>

\* Lines 96-100 for whichever product is taken next.
BeginAnyProduct ==
    /\ pc = "groups"
    /\ \E k \in 1..Len(groups) :
          /\ product_name' = groups[k]
          /\ groups' = RemoveAt(groups, k)
          /\ current_available_qty' = InitialQty(groups[k])
          /\ stock_expiration_date' = InitialExp(groups[k])
          /\ rows' = SortValues(GroupRows(forecast, groups[k]))
    /\ pc' = "rows"
    /\ UNCHANGED prep
    /\ UNCHANGED <<consolidated_stock, forecast, results, data_loaded, run, first_results>>

NextAnyOrder == BeginAnyProduct \/ ProcessOrder \/ Finish

SpecAnyOrder == InitUnitStock /\ [][NextAnyOrder]_vars

\* ------------------------------------------------------ parse_shelf_life
MaxLen == 4          \* most pieces of text in a shelf-life cell

\* The pieces a cell's string is spelt with.  A digit is one piece, and so
\* are " months", " year" and "not less than "; "x" is any other text.  No
\* piece but " months", " MONTHS" and " year" holds a blank followed by a
\* letter, so a pattern occurs in the string exactly where its pieces occur
\* in a row.
Pieces == {"1", "2", "3", "6", " months", " MONTHS", " year", "not less than ", "x"}

Strings == UNION { [1..n -> Pieces] : n \in 0..MaxLen }

\* The values a cell can hold: a string, NaN, None, or a number.
CellValues ==
    { [kind |-> "str", text |-> t] : t \in Strings }
        \cup { [kind |-> k, text |-> <<>>] : k \in {"nan", "none", "number"} }

\* str.lower() (line 14), piece by piece.
LowerPiece(c) == IF c = " MONTHS" THEN " months" ELSE c
Lower(t) == [k \in 1..Len(t) |-> LowerPiece(t[k])]

\* The patterns of lines 15-19.
Pattern12Months == <<"1", "2", " months">>
Pattern1Year == <<"1", " year">>
PatternNotLessThan12 == <<"not less than ", "1", "2", " months">>
Pattern6Months == <<"6", " months">>
Pattern3Months == <<"3", " months">>

\* pattern in text (lines 15, 17, 19).
Contains(t, p) ==
    \E o \in 0..(Len(t) - Len(p)) : \A k \in 1..Len(p) : t[o + k] = p[k]

\* parse_shelf_life with the tests of lines 15 and 17 in the other order.
parse_shelf_life_6_first(v) ==
    IF v.kind # "str" THEN 6
    ELSE LET text_lower == Lower(v.text)
         IN  IF Contains(text_lower, Pattern6Months) THEN 6
             ELSE IF \/ Contains(text_lower, Pattern12Months)
                     \/ Contains(text_lower, Pattern1Year)
                     \/ Contains(text_lower, PatternNotLessThan12) THEN 12
             ELSE IF Contains(text_lower, Pattern3Months) THEN 3
             ELSE 6

\* parse_shelf_life (lines 7-22).
parse_shelf_life(v) ==
    IF v.kind \in {"nan", "none"} \/ v.kind # "str" THEN 6
    ELSE LET text_lower == Lower(v.text)
         IN  IF \/ Contains(text_lower, Pattern12Months)
                \/ Contains(text_lower, Pattern1Year)
                \/ Contains(text_lower, PatternNotLessThan12) THEN 12
             ELSE IF Contains(text_lower, Pattern6Months) THEN 6
             ELSE IF Contains(text_lower, Pattern3Months) THEN 3
             ELSE 6

\* The loop's variables while only parse_shelf_life runs.
LoopIdle ==
    /\ consolidated_stock = [p \in Products |-> NoStock]
    /\ forecast = <<>>
    /\ groups = <<>>
    /\ product_name = "P"
    /\ current_available_qty = 0
    /\ stock_expiration_date = NaT
    /\ rows = <<>>
    /\ results = <<>>
    /\ data_loaded = FALSE
    /\ run = "first"
    /\ first_results = <<>>

InitParse ==
    /\ LoopIdle
    /\ pc = "parse"
    /\ shipments_2024_df = {}
    /\ shelf_life_df = <<>>
    /\ forecast_2025_df = <<>>
    /\ shelf_text \in CellValues
    /\ shelf_months = 0

\* One call of parse_shelf_life (line 66 applies it to every cell).
ParseShelfLife ==
    /\ pc = "parse"
    /\ shelf_months' = parse_shelf_life(shelf_text)
    /\ pc' = "parsed"
    /\ UNCHANGED <<consolidated_stock, forecast, groups, product_name,
                   current_available_qty, stock_expiration_date, rows, results,
                   data_loaded, run, first_results,
                   shipments_2024_df, shelf_life_df, forecast_2025_df, shelf_text>>

NextParse == ParseShelfLife

SpecParse == InitParse /\ [][NextParse]_vars

\* ------------------------------------------- preparation of the forecast
MaxShipments == 2    \* most rows of the shipments sheet
MaxShelfRows == 2    \* most rows of the shelf-life sheet

FirstMonth == 6      \* line 74
LastMonth == 12      \* line 75

\* Year and month of a 'Ship Date': one month before the window, and months
\* of the window in two years.
RawPeriods == { <<2024, 5>>, <<2023, 6>>, <<2024, 6>>, <<2024, 7>> }

\* A row of the shipments sheet whose ship date parsed (lines 70-71).
ShipmentRows ==
    { [product |-> p, customer |-> c, year |-> ym[1], month |-> ym[2], qty |-> q] :
        p \in Products, c \in Customers, ym \in RawPeriods, q \in 1..MaxQty }

RECURSIVE SetsUpTo(_, _)
SetsUpTo(S, n) ==
    IF n = 0 THEN {{}}
    ELSE LET smaller == SetsUpTo(S, n - 1)
         IN  smaller \cup { s \cup {a} : s \in smaller, a \in S }

\* The shipments sheet, as the set of its rows: their order does not reach
\* the sums of line 82.
ShipmentSheets == SetsUpTo(ShipmentRows, MaxShipments)

\* The cells of the shelf-life column the sheets of the model hold.
SheetCells ==
    { NoText,
      [kind |-> "str", text |-> <<"1", "2", " months">>],
      [kind |-> "str", text |-> <<"3", " MONTHS">>] }

\* The shelf-life sheet: rows in sheet order, nothing keeping a customer
\* from having several.
ShelfSheets ==
    UNION { [1..n -> [customer : Customers, text : SheetCells]] : n \in 0..MaxShelfRows }

\* shipments_2024_filtered (lines 73-76).
ShipmentsFiltered ==
    { r \in shipments_2024_df : r.month >= FirstMonth /\ r.month <= LastMonth }

\* The group keys of line 78: product, customer and the period (year and
\* month) of the ship date.
PeriodKey(r) ==
    [product |-> r.product, customer |-> r.customer, year |-> r.year, month |-> r.month]

PeriodKeyRank(k) ==
    1000000 * ProductRank[k.product] + 100000 * CustomerRank[k.customer]
        + 12 * k.year + k.month

RECURSIVE SumQty(_)
SumQty(S) ==
    IF S = {} THEN 0
    ELSE LET r == CHOOSE x \in S : TRUE IN r.qty + SumQty(S \ {r})

\* One row per group key, in key order, with the summed quantity (lines
\* 78-82) and the first day of the period's month in 2025 as forecast ship
\* date (line 84): the period's year is replaced.
RECURSIVE AggregatedRows(_)
AggregatedRows(K) ==
    IF K = {} THEN <<>>
    ELSE LET k == CHOOSE x \in K : \A y \in K : PeriodKeyRank(x) <= PeriodKeyRank(y)
         IN  << [product |-> k.product, customer |-> k.customer, month |-> k.month,
                 qty |-> SumQty({ r \in ShipmentsFiltered : PeriodKey(r) = k })] >>
               \o AggregatedRows(K \ {k})

\* shelf_life_df after lines 66-68: customer and parsed months.
ParsedShelfLife ==
    [k \in 1..Len(shelf_life_df) |->
        [customer |-> shelf_life_df[k].customer,
         months |-> parse_shelf_life(shelf_life_df[k].text)]]

\* pd.merge(..., how='left') (lines 87-92) and fillna(6) (line 93): every
\* forecast row once per sheet row of its customer, in sheet order, or once
\* with 6 months when the sheet has none.
RECURSIVE MergeLeft(_, _)
MergeLeft(left, right) ==
    IF left = <<>> THEN <<>>
    ELSE LET row == Head(left)
             matches == SelectSeq(right, LAMBDA s : s.customer = row.customer)
             withShelf(m) ==
                 [product |-> row.product, customer |-> row.customer,
                  month |-> row.month, qty |-> row.qty, shelf |-> m]
         IN  (IF matches = <<>> THEN << withShelf(6) >>
              ELSE [k \in 1..Len(matches) |-> withShelf(matches[k].months)])
               \o MergeLeft(Tail(left), right)

InitPipeline ==
    /\ consolidated_stock \in [Products -> {NoStock, FullStockRow}]
    /\ shipments_2024_df \in ShipmentSheets
    /\ shelf_life_df \in ShelfSheets
    /\ forecast_2025_df = <<>>
    /\ shelf_text = NoText
    /\ shelf_months = 0
    /\ forecast = <<>>
    /\ pc = "aggregate"
    /\ groups = <<>>
    /\ product_name = "P"
    /\ current_available_qty = 0
    /\ stock_expiration_date = NaT
    /\ rows = <<>>
    /\ results = <<>>
    /\ data_loaded = FALSE
    /\ run = "first"
    /\ first_results = <<>>

\* Lines 70-85: the shipments of the window are summed by product, customer
\* and period and projected onto 2025.
AggregateForecast ==
    /\ pc = "aggregate"
    /\ forecast_2025_df' = AggregatedRows({ PeriodKey(r) : r \in ShipmentsFiltered })
    /\ pc' = "merge"
    /\ UNCHANGED <<consolidated_stock, forecast, groups, product_name,
                   current_available_qty, stock_expiration_date, rows, results,
                   data_loaded, run, first_results,
                   shipments_2024_df, shelf_life_df, shelf_text, shelf_months>>

\* Lines 66-68 and 87-93: the shelf lives are parsed and joined to the
\* forecast; line 96 then groups the joined frame.
MergeShelfLife ==
    /\ pc = "merge"
    /\ forecast' = MergeLeft(forecast_2025_df, ParsedShelfLife)
    /\ groups' = GroupKeys(forecast')
    /\ pc' = "groups"
    /\ UNCHANGED <<consolidated_stock, product_name,
                   current_available_qty, stock_expiration_date, rows, results,
                   data_loaded, run, first_results, prep>>

NextPipeline ==
    AggregateForecast \/ MergeShelfLife \/ BeginProduct \/ ProcessOrder \/ Finish

SpecPipeline == InitPipeline /\ [][NextPipeline]_vars

\* ------------------------------------------------- reading the ledger
\* The statuses of the decision table under the names the code gives them.
FULFILLED == "Yes"
INSUFFICIENT_VALIDITY == "No (Validity)"
INSUFFICIENT_QTY == "No (Quantity)"
INSUFFICIENT_QTY_AND_VALIDITY == "No (Quantity & Validity)"

\* The forecast order a ledger record was made from.
OrderOf(rec) ==
    [product |-> rec.product, customer |-> rec.customer, month |-> rec.month,
     qty |-> rec.qty, shelf |-> rec.shelf]

\* Indices of the ledger records of product p.
RecordsOf(p) == { i \in 1..Len(results) : results[i].product = p }

\* The product's StockPosition.availableQuantity (0 without a stock row).
AvailableQuantity(p) ==
    IF consolidated_stock[p].present THEN consolidated_stock[p].qty ELSE 0

\* The balance record i was decided against: what the record before it of the
\* same product left, or the StockPosition's quantity for the first one.
PreOrderBalance(i) ==
    LET before == { j \in RecordsOf(results[i].product) : j < i }
    IN  IF before = {} THEN AvailableQuantity(results[i].product)
        ELSE results[CHOOSE j \in before : \A k \in before : k <= j].remaining

\* validForOrder of the decision table, from the record's own fields.
ValidForOrder(exp, month, shelf) == exp # NaT /\ exp >= month + shelf

\* The decision table of the allocation engine, row by row.
TableTriple(balance, qty, valid) ==
    CASE balance >= qty /\ valid      -> <<FULFILLED, 0, balance - qty>>
      [] balance >= qty /\ ~valid     -> <<INSUFFICIENT_VALIDITY, qty, balance>>
      [] balance < qty /\ valid       -> <<INSUFFICIENT_QTY, qty - balance, 0>>
      [] balance < qty /\ ~valid      -> <<INSUFFICIENT_QTY_AND_VALIDITY, qty, 0>>

\* The step appends one record to the ledger.
Emits == Len(results') = Len(results) + 1
Emitted == results'[Len(results')]

\* ------------------------------------------------------------------ C1
\* C1: every record the loop emits carries the status, the missing quantity
\* and the remaining balance the decision table gives for the balance before
\* the order, the forecast quantity and the validity of the stock for the
\* order, and the running balance becomes that remaining balance.
C1_DecisionTable ==
    [][ Emits =>
          LET row == Head(rows)
              valid == ValidForOrder(stock_expiration_date, row.month, row.shelf)
          IN  /\ OrderOf(Emitted) = row
              /\ <<Emitted.status, Emitted.missing, Emitted.remaining>>
                   = TableTriple(current_available_qty, row.qty, valid)
              /\ current_available_qty' = Emitted.remaining ]_vars

\* Scenario A's second order: a valid order larger than the balance the
\* first one left is short by the difference.
C1_Witness ==
    \E i \in 1..Len(results) :
        /\ results[i].status = INSUFFICIENT_QTY
        /\ PreOrderBalance(i) > 0
        /\ results[i].missing = results[i].qty - PreOrderBalance(i)
        /\ results[i].remaining = 0

\* ------------------------------------------------------------------ C2
\* C2: the ledger never holds two records of one forecast order nor a record
\* of anything that is no forecast order, and once the loop has finished it
\* holds exactly one record for every forecast order; a product without
\* forecast orders has no record, whatever its stock.
C2_OnePerOrder ==
    /\ \A i \in 1..Len(results) :
          /\ \E k \in 1..Len(forecast) : forecast[k] = OrderOf(results[i])
          /\ \A j \in 1..Len(results) :
                OrderOf(results[j]) = OrderOf(results[i]) => j = i
    /\ pc = "done" =>
          /\ Len(results) = Len(forecast)
          /\ \A k \in 1..Len(forecast) :
                \E i \in 1..Len(results) : OrderOf(results[i]) = forecast[k]
    /\ \A p \in Products :
          (\A k \in 1..Len(forecast) : forecast[k].product # p) => RecordsOf(p) = {}

\* A finished run over two orders, one of them of quantity 0, while another
\* product holds stock and has no order.
C2_Witness ==
    /\ pc = "done"
    /\ Len(results) = 2
    /\ \E i \in 1..Len(results) : results[i].qty = 0
    /\ \E p \in Products :
          /\ consolidated_stock[p].present
          /\ consolidated_stock[p].qty > 0
          /\ RecordsOf(p) = {}

\* ------------------------------------------------------------------ C3
\* What record i took off the balance: the order's quantity when it was
\* fulfilled, nothing when only validity failed, the whole balance when the
\* quantity was short.
Deducted(i) ==
    CASE results[i].status = FULFILLED -> results[i].qty
      [] results[i].status = INSUFFICIENT_VALIDITY -> 0
      [] OTHER -> PreOrderBalance(i)

RECURSIVE SumDeducted(_)
SumDeducted(S) ==
    IF S = {} THEN 0
    ELSE LET i == CHOOSE x \in S : TRUE IN Deducted(i) + SumDeducted(S \ {i})

LastRecordOf(p) == CHOOSE i \in RecordsOf(p) : \A k \in RecordsOf(p) : k <= i

\* C3: for every product with records, the quantities its orders took off
\* the balance sum to at most the StockPosition's available quantity, and
\* the remaining stock of its last record is that quantity minus the sum.
C3_Conservation ==
    \A p \in Products :
        RecordsOf(p) # {} =>
            /\ SumDeducted(RecordsOf(p)) <= AvailableQuantity(p)
            /\ results[LastRecordOf(p)].remaining
                 = AvailableQuantity(p) - SumDeducted(RecordsOf(p))

\* A product whose first order was refused for validity alone and whose
\* second order was fulfilled from the stock that was kept.
C3_Witness ==
    \E p \in Products :
        /\ Cardinality(RecordsOf(p)) = 2
        /\ \E i, j \in RecordsOf(p) :
              /\ i < j
              /\ results[i].status = INSUFFICIENT_VALIDITY
              /\ results[i].qty > 0
              /\ results[j].status = FULFILLED
              /\ results[j].qty > 0
        /\ SumDeducted(RecordsOf(p)) > 0

\* ------------------------------------------------------------------ C4
\* C4: along the records of one product, in the order the loop replayed
\* them, the remaining stock never grows.
C4_MonotonicDepletion ==
    \A i, j \in 1..Len(results) :
        (i < j /\ results[i].product = results[j].product)
            => results[j].remaining <= results[i].remaining

\* Two orders of one product, the later one leaving strictly less.
C4_Witness ==
    \E i, j \in 1..Len(results) :
        /\ i < j
        /\ results[i].product = results[j].product
        /\ results[i].month < results[j].month
        /\ results[j].remaining < results[i].remaining

\* ------------------------------------------------------------------ C5
\* C5: a record is FULFILLED exactly when its missing quantity is 0, and a
\* record that is not FULFILLED misses the whole forecast quantity or the
\* forecast quantity less the balance before the order, as its status
\* prescribes, and never a negative quantity.
C5_StatusMissingConsistent ==
    \A i \in 1..Len(results) :
        /\ results[i].status = FULFILLED <=> results[i].missing = 0
        /\ results[i].status = INSUFFICIENT_QTY
              => results[i].missing = results[i].qty - PreOrderBalance(i)
        /\ results[i].status \in {INSUFFICIENT_VALIDITY, INSUFFICIENT_QTY_AND_VALIDITY}
              => results[i].missing = results[i].qty
        /\ results[i].missing >= 0

\* ------------------------------------------------------------------ C6
\* C6: an order of forecast quantity 0 is FULFILLED with nothing missing,
\* whether or not the stock is valid for it.
C6_ZeroQtyFulfilled ==
    \A i \in 1..Len(results) :
        results[i].qty = 0 =>
            /\ results[i].status = FULFILLED
            /\ results[i].missing = 0

\* ------------------------------------------------------------------ C7
HasStockRow(p) == consolidated_stock[p].present

C8_ValidityFailureKeepsStock ==
    [][ ( /\ Emits
          /\ current_available_qty >= Head(rows).qty
          /\ ~ValidForOrder(stock_expiration_date, Head(rows).month, Head(rows).shelf) )
        => /\ current_available_qty' = current_available_qty
           /\ Emitted.remaining = current_available_qty
           /\ Emitted.status = INSUFFICIENT_VALIDITY ]_vars

\* An order refused for validity alone, and a later order of the product
\* fulfilled from the whole of the stock that was kept.
C8_Witness ==
    \E i, j \in 1..Len(results) :
        /\ i < j
        /\ results[i].product = results[j].product
        /\ results[i].status = INSUFFICIENT_VALIDITY
        /\ results[i].qty > 0
        /\ results[i].remaining = results[i].initial
        /\ results[j].status = FULFILLED
        /\ results[j].qty = results[i].remaining

\* ------------------------------------------------------------------ C9
\* The first n records of a ledger.
Prefix(s, n) == SubSeq(s, 1, n)

C10_InitialStockQuantity ==
    /\ \A i \in 1..Len(results) :
          results[i].initial = AvailableQuantity(results[i].product)
    /\ \A i, j \in 1..Len(results) :
          results[i].product = results[j].product
              => results[i].initial = results[j].initial

\* A record decided against a balance that earlier orders had lowered below
\* the initial stock quantity it carries.
C10_Witness ==
    \E i \in 1..Len(results) :
        /\ PreOrderBalance(i) < results[i].initial
        /\ results[i].initial = AvailableQuantity(results[i].product)

\* ----------------------------------------------------------------- C11
\* C11: no record shows a negative remaining stock or a negative missing
\* quantity, and the running balance is never negative, whatever the
\* non-negative stock and forecast quantities.
C11_NonNegative ==
    /\ current_available_qty >= 0
    /\ \A i \in 1..Len(results) :
          /\ results[i].remaining >= 0
          /\ results[i].missing >= 0

\* A valid order larger than what is left of the positive stock of its
\* product: the record misses a positive quantity and leaves 0.
C11_Witness ==
    \E i \in 1..Len(results) :
        /\ results[i].status = INSUFFICIENT_QTY
        /\ results[i].initial > 0
        /\ results[i].qty > PreOrderBalance(i)
        /\ results[i].remaining = 0
        /\ results[i].missing > 0
        /\ current_available_qty = 0

\* ----------------------------------------------------------------- C13
\* C13: with an empty forecast frame the loop emits nothing, the only step
\* open to it is the one that stores the ledger, and that step ends the load
\* as loaded, with an empty ledger.
C13_EmptyForecast ==
    forecast = <<>> =>
        /\ results = <<>>
        /\ pc \in {"groups", "done"}
        /\ pc = "groups" => (ENABLED Finish /\ ~ENABLED BeginProduct)
        /\ pc = "done" => data_loaded

\* The load has ended on an empty forecast frame while a product holds stock.
C13_Witness ==
    /\ forecast = <<>>
    /\ pc = "done"
    /\ data_loaded
    /\ results = <<>>
    /\ \E p \in Products : consolidated_stock[p].present /\ consolidated_stock[p].qty > 0

\* ----------------------------------------------------------------- C14
\* C14: the records of one product appear in ascending ship date, no row
\* still to replay is dated before a record of its product, and every record
\* is the decision of the table against the balance the record before it of
\* the same product left (the stock quantity for the first one).
C14_ShipDateReplay ==
    /\ \A i, j \in 1..Len(results) :
          (i < j /\ results[i].product = results[j].product)
              => results[i].month <= results[j].month
    /\ pc = "rows" =>
          \A k \in 1..Len(rows) :
              /\ rows[k].product = product_name
              /\ \A i \in RecordsOf(product_name) : results[i].month <= rows[k].month
    /\ \A i \in 1..Len(results) :
          <<results[i].status, results[i].missing, results[i].remaining>>
            = TableTriple(PreOrderBalance(i), results[i].qty,
                          ValidForOrder(results[i].exp, results[i].month, results[i].shelf))

\* Customer B's June order replayed before customer A's July order, which
\* the frame lists first: B's order takes stock and A's is decided against
\* what is left.
C14_Witness ==
    \E i, j \in 1..Len(results) :
        /\ i < j
        /\ results[i].product = results[j].product
        /\ results[i].customer = "B"
        /\ results[j].customer = "A"
        /\ results[i].month < results[j].month
        /\ results[i].status = FULFILLED
        /\ results[i].qty > 0
        /\ PreOrderBalance(j) < results[j].initial

\* ----------------------------------------------------------------- C15
\* The records of product p, in ledger order.
LedgerOf(p) == SelectSeq(results, LAMBDA rec : rec.product = p)

\* The records the rows rs give when replayed alone from balance bal.
RECURSIVE Replay(_, _, _, _)
Replay(p, bal, exp, rs) ==
    IF rs = <<>> THEN <<>>
    ELSE LET rec == RowResult(p, bal, exp, Head(rs))
         IN  <<rec>> \o Replay(p, rec.remaining, exp, Tail(rs))

\* The ledger of product p alone: a function of its own stock row and its
\* own forecast rows.
ReplayAlone(p) ==
    Replay(p, AvailableQuantity(p),
           IF consolidated_stock[p].present THEN consolidated_stock[p].exp ELSE NaT,
           SortValues(GroupRows(forecast, p)))

MonthFilters == {ShipMonths} \cup { {m} : m \in ShipMonths }
CustomerFilters == {Customers} \cup { {c} : c \in Customers }
MedicineFilters == {Products} \cup { {p} : p \in Products }

\* filtered_data_kpis (lines 375-380): the ledger rows the filters keep.
FilteredDataKpis(ms, cs, ps) ==
    { i \in 1..Len(results) :
        results[i].month \in ms /\ results[i].customer \in cs /\ results[i].product \in ps }

\* kpi_total_forecasted_qty and kpi_total_missing_qty (lines 383-384).
RECURSIVE KpiTotalForecastedQty(_)
KpiTotalForecastedQty(S) ==
    IF S = {} THEN 0
    ELSE LET i == CHOOSE x \in S : TRUE
         IN  results[i].qty + KpiTotalForecastedQty(S \ {i})

RECURSIVE KpiTotalMissingQty(_)
KpiTotalMissingQty(S) ==
    IF S = {} THEN 0
    ELSE LET i == CHOOSE x \in S : TRUE
         IN  results[i].missing + KpiTotalMissingQty(S \ {i})

\* pie_total_covered_qty (line 485).
PieTotalCoveredQty(S) == KpiTotalForecastedQty(S) - KpiTotalMissingQty(S)

\* C17: no record misses more than its forecast quantity, so under every
\* selection of the filters the covered quantity of the sufficiency chart is
\* not negative.
C17_CoveredNonNegative ==
    /\ \A i \in 1..Len(results) : results[i].missing <= results[i].qty
    /\ \A ms \in MonthFilters, cs \in CustomerFilters, ps \in MedicineFilters :
          PieTotalCoveredQty(FilteredDataKpis(ms, cs, ps)) >= 0

\* A short order that leaves part of its quantity covered: the chart of its
\* month alone shows a positive covered and a positive missing quantity.
C17_Witness ==
    \E i \in 1..Len(results) :
        /\ results[i].status = INSUFFICIENT_QTY
        /\ PreOrderBalance(i) > 0
        /\ LET S == FilteredDataKpis({results[i].month}, {results[i].customer},
                                     {results[i].product})
           IN  /\ S = {i}
               /\ KpiTotalForecastedQty(S) > 0
               /\ PieTotalCoveredQty(S) > 0
               /\ KpiTotalMissingQty(S) > 0

\* ----------------------------------------------------------------- C18
ShortOfQuantity(rec) == rec.status \in {INSUFFICIENT_QTY, INSUFFICIENT_QTY_AND_VALIDITY}

\* C18: a record decided short of quantity leaves 0; every later record of
\* its product leaves 0 too and, when it asks for a positive quantity, is
\* not FULFILLED; and while the product is still being replayed the running
\* balance is 0.
C18_ShortfallExhaustsStock ==
    /\ \A i \in 1..Len(results) :
          ShortOfQuantity(results[i]) =>
              /\ results[i].remaining = 0
              /\ \A j \in 1..Len(results) :
                    (i < j /\ results[j].product = results[i].product) =>
                        /\ results[j].remaining = 0
                        /\ results[j].qty > 0 => results[j].status # FULFILLED
    /\ (pc = "rows" /\ \E i \in RecordsOf(product_name) : ShortOfQuantity(results[i]))
          => current_available_qty = 0

\* A valid order larger than the stock wipes a positive balance, and a later
\* valid order that the wiped balance would have covered is short in full.
C18_Witness ==
    \E i, j \in 1..Len(results) :
        /\ i < j
        /\ results[i].product = results[j].product
        /\ results[i].status = INSUFFICIENT_QTY
        /\ PreOrderBalance(i) > 0
        /\ results[j].qty > 0
        /\ results[j].qty <= PreOrderBalance(i)
        /\ results[j].status = INSUFFICIENT_QTY
        /\ results[j].missing = results[j].qty

\* ----------------------------------------------------------------- C16
\* The text holds the pattern as it is written.
Holds(t, p) ==
    \E o \in 0..(Len(t) - Len(p)) : SubSeq(t, o + 1, o + Len(p)) = p

\* The text holds the pattern in some mix of upper and lower case.
HoldsIgnoringCase(t, p) ==
    \E o \in 0..(Len(t) - Len(p)) :
        \A k \in 1..Len(p) : LowerPiece(t[o + k]) = LowerPiece(p[k])

\* C16 as stated: the call returns 6 for a value that is no string, else 12
\* when the text holds "12 months" or "1 year", else 6 when it holds
\* "6 months", else 3 when it holds "3 months", else 6.
C16_ParseCascade ==
    pc = "parsed" =>
        /\ shelf_months \in {3, 6, 12}
        /\ shelf_months =
              IF shelf_text.kind # "str" THEN 6
              ELSE IF \/ Holds(shelf_text.text, Pattern12Months)
                      \/ Holds(shelf_text.text, Pattern1Year) THEN 12
              ELSE IF Holds(shelf_text.text, Pattern6Months) THEN 6
              ELSE IF Holds(shelf_text.text, Pattern3Months) THEN 3
              ELSE 6

\* C16, amended: the same cascade with every pattern looked for without
\* regard to case.
C16_ParseCascadeIgnoringCase ==
    pc = "parsed" =>
        /\ shelf_months \in {3, 6, 12}
        /\ shelf_months =
              IF shelf_text.kind # "str" THEN 6
              ELSE IF \/ HoldsIgnoringCase(shelf_text.text, Pattern12Months)
                      \/ HoldsIgnoringCase(shelf_text.text, Pattern1Year) THEN 12
              ELSE IF HoldsIgnoringCase(shelf_text.text, Pattern6Months) THEN 6
              ELSE IF HoldsIgnoringCase(shelf_text.text, Pattern3Months) THEN 3
              ELSE 6

\* A text holding both "1 year" and "6 MONTHS" has been parsed to 12.
C16_Witness ==
    /\ pc = "parsed"
    /\ shelf_text.kind = "str"
    /\ Holds(shelf_text.text, Pattern1Year)
    /\ Holds(shelf_text.text, <<"6", " MONTHS">>)
    /\ shelf_months = 12

\* ----------------------------------------------------------------- C12
\* C12: the forecast frame handed to the loop holds no two rows of one
\* product, customer and forecast month, and neither does the ledger.
C12_UniqueForecastKey ==
    /\ pc \in {"groups", "rows", "done"} =>
          \A i, j \in 1..Len(forecast) :
              ( /\ forecast[i].product = forecast[j].product
                /\ forecast[i].customer = forecast[j].customer
                /\ forecast[i].month = forecast[j].month ) => i = j
    /\ \A i, j \in 1..Len(results) :
          ( /\ results[i].product = results[j].product
            /\ results[i].customer = results[j].customer
            /\ results[i].month = results[j].month ) => i = j

====
